---------------------------- MODULE Spec2Model ----------------------------
(***************************************************************************)
(* Model of the two scrapers of the repository:                            *)
(*   src/scraper.py        TwitterScraper.search_tweets                    *)
(*   src/leakixscraper.py  WebsiteScraper.get_page / scrape_search_results *)
(*                                                                         *)
(* One behaviour is one run of one script: Init chooses the script (mode)  *)
(* and its arguments, the environment (the remote server) chooses every    *)
(* response and every random sample.  Time is not modelled; every sleep is *)
(* a control state of its own and its duration is a value of the state.    *)
(* Durations of leakixscraper.py are counted in ticks, Ticks per second;   *)
(* durations of scraper.py are whole seconds.                              *)
(***************************************************************************)
EXTENDS Integers, Sequences, FiniteSets, TLC

(***************************************************************************)
(* Bounds of the model.                                                    *)
(***************************************************************************)
\* ticks per second: the grain of random.uniform's samples
Ticks == 2
\* largest `pages` argument of scrape_search_results
MaxPages == 3
\* largest `retry_count` argument of a direct get_page call
MaxRetryCount == 4

(***************************************************************************)
(* Program constants.                                                      *)
(***************************************************************************)
\* scraper.py:43
max_retries == 5
\* scraper.py:45
InitialRetryDelay == 60
\* leakixscraper.py:29, the default of get_page's retry_count
DefaultRetryCount == 3
\* leakixscraper.py:46
HTTP_OK == 200
\* leakixscraper.py:137, random.uniform(2, 5)
PoliteMin == 2
PoliteMax == 5

\* Python's None, and a value that is present
None == <<>>
Some(x) == <<x>>

RECURSIVE Pow2(_)
\* 2 ** n
Pow2(n) == IF n <= 0 THEN 1 ELSE 2 * Pow2(n - 1)

(***************************************************************************)
(* scraper.py: the environment of search_tweets.                           *)
(***************************************************************************)
\* one tweet of response.data, with the tweet_fields asked for
Tweet(i, a) ==
    [ id |-> i, text |-> <<"text", i>>, author_id |-> a,
      created_at |-> <<"time", i>>, lang |-> "en",
      public_metrics |-> [retweet_count |-> i, reply_count |-> 0,
                          like_count |-> 2 * i, quote_count |-> 1] ]

\* one user of response.includes['users'], with the user_fields asked for
User(a) ==
    [ id |-> a, name |-> <<"name", a>>, username |-> <<"username", a>>,
      location |-> <<"location", a>>, verified |-> (a = "u1") ]

\* the successful responses: response.data and the ids of the users of
\* response.includes['users']
TwResponses ==
    { [data |-> <<>>, users |-> {}],
      [data |-> <<Tweet(1, "u1")>>, users |-> {"u1"}],
      [data |-> <<Tweet(1, "u1"), Tweet(2, "u2")>>, users |-> {"u1"}],
      [data |-> <<Tweet(3, "u3"), Tweet(4, "u3")>>, users |-> {}] }

\* the reset hint a TooManyRequests response may carry (x-rate-limit-reset),
\* in seconds from now; None when the server sends none
ResetHints == {None, Some(15), Some(900)}

(***************************************************************************)
(* leakixscraper.py: the environment of get_page.                          *)
(***************************************************************************)
\* self.base_url
base_url == "https://leakix.net"

\* the text of an element: the characters and the white space around them
Text(core, padded) == [core |-> core, padded |-> padded]

\* one div.detail-item: its span.detail-key and span.detail-value, if any
Detail(k, v) == [key |-> k, value |-> v]

\* one div.search-result element of page p (on the homepage: one div.card),
\* by the kind of its markup:
\*   "full"    every field, a relative link, three details (one without value)
\*   "abs"     a title, an absolute link, no description, no date, no details
\*   "bare"    no field at all
\*   "broken"  a title and an <a> element that has no href attribute
Element(kind, p, i) ==
    [ title |-> IF kind = "bare" THEN None
                ELSE Some(Text(<<"title", p, i>>, kind = "full")),
      description |-> IF kind = "full"
                      THEN Some(Text(<<"description", p, i>>, TRUE)) ELSE None,
      anchor |-> CASE kind = "full" ->
                        Some([href |-> Some([absolute |-> FALSE, path |-> <<"host", p, i>>])])
                   [] kind = "abs" ->
                        Some([href |-> Some([absolute |-> TRUE, path |-> <<"host", p, i>>])])
                   [] kind = "broken" -> Some([href |-> None])
                   [] OTHER -> None,
      date |-> IF kind = "full" THEN Some(Text(<<"date", p, i>>, FALSE)) ELSE None,
      details |-> IF kind = "full"
                  THEN << Detail(Some(Text("port", TRUE)), Some(Text("443", FALSE))),
                          Detail(Some(Text("asn", FALSE)), None),
                          Detail(Some(Text("port", FALSE)), Some(Text("8443", TRUE))) >>
                  ELSE <<>> ]

\* the markup of the result pages the server may send, as kinds of elements
PageShapes ==
    { <<>>,
      <<"full">>,
      <<"bare", "abs">>,
      <<"broken">>,
      <<"full", "broken", "bare">> }

\* response.text of a 200 response for page p: a result page, or a payload
\* that is no markup at all
Texts(p) ==
    { [markup |-> TRUE,
       elements |-> [i \in 1..Len(shape) |-> Element(shape[i], p, i)]] :
         shape \in PageShapes }
    \cup { [markup |-> FALSE, elements |-> <<>>] }

\* the status codes the server may answer with
HttpStatuses == {200, 429, 500}

\* what one session.get may end in, but for the text of the response: a
\* requests.RequestException (status 0) or a response with a status code
Outcomes ==
    { [kind |-> "transport", status |-> 0] }
    \cup { [kind |-> "http", status |-> st] : st \in HttpStatuses }

VARIABLES
    mode,           \* which run it is: "twitter" (scraper.py), "search" and
                    \* "home" (leakixscraper.py --mode), or "page" (a direct
                    \* call of get_page)
    \* ---- scraper.py, search_tweets
    tw_pc,          \* "loop" | "sleeping" | "done" | "idle"
    retry_count,    \* scraper.py:44
    retry_delay,    \* scraper.py:45
    tweets,         \* scraper.py:32
    tw_hint,        \* the reset hint of the last TooManyRequests
    tw_wait,        \* the argument of the running time.sleep, 0 when none runs
    tw_waits,       \* history: the arguments of every time.sleep, in order
    tw_trace,       \* history: the events of the call, in order
    \* ---- leakixscraper.py, scrape_search_results
    ws_pc,          \* "fetch" (inside get_page) | "polite" | "done" | "idle"
    pages,          \* leakixscraper.py:94, the argument
    page,           \* leakixscraper.py:106, the loop variable
    all_results,    \* leakixscraper.py:104
    polite_time,    \* leakixscraper.py:137, sleep_time of the running
                    \* politeness delay, 0 when none runs
    run_trace,      \* history: <<event, page>> of the run, in order
    fetched,        \* history: response.text of the 200 responses, in order
    responses,      \* history: what every request of the run got, in order:
                    \* Some(response.text) of a 200, None of a failure
    interrupted,    \* whether KeyboardInterrupt was raised in the run
    delivered,      \* what scrape_search_results returned to main:
                    \* None before it returns, then Some(all_results)
    \* ---- leakixscraper.py, scrape_leakix_homepage
    home_pc,        \* "fetch" (inside get_page) | "done" | "idle"
    results,        \* leakixscraper.py:72
    \* ---- leakixscraper.py, get_page
    gp_pc,          \* "request" | "backoff" | "returned" | "idle"
    gp_retry_count, \* leakixscraper.py:29, the argument retry_count
    attempt,        \* leakixscraper.py:41, the loop variable
    soup,           \* what get_page returns: None or Some(parsed page)
    sleep_time,     \* leakixscraper.py:56, of the running backoff sleep,
                    \* 0 when none runs
    last_resp,      \* the response (or transport error) of the last request
    gp_trace        \* history: the events of this get_page call, in order

tw_vars == <<tw_pc, retry_count, retry_delay, tweets, tw_hint, tw_wait,
             tw_waits, tw_trace>>

ws_vars == <<ws_pc, pages, page, all_results, polite_time, run_trace, fetched,
             responses, interrupted, delivered>>

home_vars == <<home_pc, results>>

gp_vars == <<gp_pc, gp_retry_count, attempt, soup, sleep_time, last_resp,
             gp_trace>>

vars == <<mode, tw_vars, ws_vars, home_vars, gp_vars>>

(***************************************************************************)
(* search_tweets                                                           *)
(***************************************************************************)
\* scraper.py:47, the loop test
LoopGuard(rc) == rc <= max_retries

CanRetry_off(rc) == rc <= max_retries
\* scraper.py:95
CanRetry(rc) == rc < max_retries

\* scraper.py:98
NextRetryDelay(d) == d * 2

WaitDuration_hint(delay, hint) == IF hint # None THEN hint[1] ELSE delay
\* scraper.py:97, time.sleep(retry_delay): the hint of the response is not read
WaitDuration(delay, hint) == delay

\* scraper.py:69-87, one tweet's dictionary
TweetData(tweet, users) ==
    LET tweet_data ==
            [ id |-> tweet.id, text |-> tweet.text,
              created_at |-> tweet.created_at,
              retweet_count |-> tweet.public_metrics.retweet_count,
              reply_count |-> tweet.public_metrics.reply_count,
              like_count |-> tweet.public_metrics.like_count,
              quote_count |-> tweet.public_metrics.quote_count,
              lang |-> tweet.lang ]
        user == User(tweet.author_id)
    IN IF tweet.author_id \in users
       THEN [ author_id |-> user.id, author_name |-> user.name,
              author_username |-> user.username,
              author_location |-> user.location,
              author_verified |-> user.verified ] @@ tweet_data
       ELSE tweet_data

RECURSIVE ProcessTweets(_, _)
\* scraper.py:68-89, the loop over response.data
ProcessTweets(data, users) ==
    IF data = <<>> THEN <<>>
    ELSE <<TweetData(Head(data), users)>> \o ProcessTweets(Tail(data), users)

TwInit ==
    /\ retry_count = 0
    /\ retry_delay = InitialRetryDelay
    /\ tweets = <<>>
    /\ tw_hint = None
    /\ tw_wait = 0
    /\ tw_waits = <<>>
    /\ tw_trace = <<>>

AfterEmpty_retry == "loop"
\* scraper.py:62, `break` after "No tweets found": where the call stands next
AfterEmpty == "done"

AfterSuccess_continue == "loop"
\* scraper.py:92, `break` after the tweets were processed
AfterSuccess == "done"

AfterError_retry == "loop"
\* scraper.py:106, `break` after another tweepy.TweepyException
AfterError == "done"

\* scraper.py:50-92: the request succeeds
TwSuccess ==
    /\ mode = "twitter" /\ tw_pc = "loop"
    /\ \E resp \in TwResponses :
        IF resp.data = <<>>
        THEN /\ tweets' = tweets
             /\ tw_trace' = tw_trace \o <<"request", "empty">>
             /\ tw_pc' = AfterEmpty
        ELSE /\ tweets' = tweets \o ProcessTweets(resp.data, resp.users)
             /\ tw_trace' = tw_trace \o <<"request", "success">>
             /\ tw_pc' = AfterSuccess
    /\ UNCHANGED <<mode, retry_count, retry_delay, tw_hint, tw_wait, tw_waits>>
    /\ UNCHANGED <<ws_vars, home_vars, gp_vars>>

\* scraper.py:94-102: the request raises tweepy.TooManyRequests
TwRateLimited ==
    /\ mode = "twitter" /\ tw_pc = "loop"
    /\ \E hint \in ResetHints :
        /\ tw_hint' = hint
        /\ IF CanRetry(retry_count)
           THEN /\ tw_wait' = WaitDuration(retry_delay, hint)
                /\ tw_waits' = Append(tw_waits, WaitDuration(retry_delay, hint))
                /\ tw_pc' = "sleeping"
                /\ tw_trace' = tw_trace \o <<"request", "rate_limited", "wait">>
           ELSE /\ UNCHANGED <<tw_wait, tw_waits>>
                /\ tw_pc' = "done"
                /\ tw_trace' = tw_trace \o <<"request", "rate_limited", "abort">>
    /\ UNCHANGED <<mode, retry_count, retry_delay, tweets>>
    /\ UNCHANGED <<ws_vars, home_vars, gp_vars>>

\* scraper.py:97-99 and 47: time.sleep returns, the delay doubles, the counter
\* grows and the loop test is evaluated
TwWake ==
    /\ mode = "twitter" /\ tw_pc = "sleeping"
    /\ retry_delay' = NextRetryDelay(retry_delay)
    /\ retry_count' = retry_count + 1
    /\ tw_pc' = IF LoopGuard(retry_count + 1) THEN "loop" ELSE "done"
    /\ tw_wait' = 0
    /\ UNCHANGED <<mode, tweets, tw_hint, tw_waits, tw_trace>>
    /\ UNCHANGED <<ws_vars, home_vars, gp_vars>>

\* scraper.py:104-106: the request raises another tweepy.TweepyException
TwError ==
    /\ mode = "twitter" /\ tw_pc = "loop"
    /\ tw_pc' = AfterError
    /\ tw_trace' = tw_trace \o <<"request", "error">>
    /\ UNCHANGED <<mode, retry_count, retry_delay, tweets, tw_hint, tw_wait,
                   tw_waits>>
    /\ UNCHANGED <<ws_vars, home_vars, gp_vars>>

(***************************************************************************)
(* get_page                                                                *)
(***************************************************************************)
\* leakixscraper.py:46
IsSuccess(status) == status = HTTP_OK

\* leakixscraper.py:47, BeautifulSoup(response.text, 'html.parser'): the parser
\* accepts any text; a text that is no markup gives a tree without elements
BeautifulSoup(text) ==
    [elements |-> IF text.markup THEN text.elements ELSE <<>>]

ShouldSleep_early(a, rc) == a < rc - 2
ShouldSleep_always(a, rc) == TRUE
\* leakixscraper.py:55
ShouldSleep(a, rc) == a < rc - 1

SleepTime_linear(a, jitter) == Ticks * (a + 1) + jitter
\* leakixscraper.py:56, 2 ** attempt + random.uniform(0, 1), in ticks
SleepTime(a, jitter) == Ticks * Pow2(a) + jitter

InRange_inclusive(a, rc) == a <= rc
\* leakixscraper.py:41, range(retry_count): whether attempt a is run
InRange(a, rc) == a < rc

\* the samples of random.uniform(0, 1), in ticks: 0 <= jitter < 1 second
Jitters == 0 .. (Ticks - 1)

\* no request made yet in this call
NoResponse == [kind |-> "none", status |-> 0, text |-> None]

\* leakixscraper.py:44-47: the response has status 200
GetPageOk ==
    /\ mode \in {"search", "page", "home"} /\ gp_pc = "request"
    /\ ~interrupted
    /\ \E o \in Outcomes, text \in Texts(page) :
        /\ o.kind = "http" /\ IsSuccess(o.status)
        /\ last_resp' = [kind |-> o.kind, status |-> o.status, text |-> Some(text)]
        /\ soup' = Some(BeautifulSoup(text))
        /\ fetched' = Append(fetched, text)
        /\ responses' = Append(responses, Some(text))
    /\ gp_pc' = "returned"
    /\ gp_trace' = gp_trace \o <<"request", "ok">>
    /\ run_trace' = Append(run_trace, <<"request", page>>)
    /\ UNCHANGED <<mode, tw_vars, ws_pc, pages, page, all_results, polite_time,
                   interrupted, delivered, home_vars, gp_retry_count, attempt,
                   sleep_time>>

\* leakixscraper.py:48-60: another status, or a requests.RequestException;
\* then the backoff sleep, or the end of the loop and `return None`
GetPageFail ==
    /\ mode \in {"search", "page", "home"} /\ gp_pc = "request"
    /\ ~interrupted
    /\ \E o \in Outcomes, jitter \in Jitters :
        /\ o.kind = "transport" \/ ~IsSuccess(o.status)
        /\ last_resp' = [kind |-> o.kind, status |-> o.status, text |-> None]
        /\ IF ShouldSleep(attempt, gp_retry_count)
           THEN /\ sleep_time' = SleepTime(attempt, jitter)
                /\ gp_pc' = "backoff"
                /\ gp_trace' = gp_trace \o <<"request", "fail", "sleep">>
                /\ UNCHANGED <<soup, attempt>>
           ELSE /\ sleep_time' = sleep_time
                /\ IF InRange(attempt + 1, gp_retry_count)
                   THEN /\ gp_pc' = "request"
                        /\ attempt' = attempt + 1
                        /\ gp_trace' = gp_trace \o <<"request", "fail">>
                        /\ soup' = soup
                   ELSE /\ gp_pc' = "returned"
                        /\ attempt' = attempt
                        /\ gp_trace' = gp_trace \o <<"request", "fail", "none">>
                        /\ soup' = None
    /\ run_trace' = Append(run_trace, <<"request", page>>)
    /\ responses' = Append(responses, None)
    /\ UNCHANGED <<mode, tw_vars, ws_pc, pages, page, all_results, polite_time,
                   fetched, interrupted, delivered, home_vars, gp_retry_count>>

\* leakixscraper.py:58 and 41: time.sleep returns and the loop goes on
GetPageWake ==
    /\ mode \in {"search", "page", "home"} /\ gp_pc = "backoff"
    /\ ~interrupted
    /\ attempt' = IF InRange(attempt + 1, gp_retry_count)
                  THEN attempt + 1 ELSE attempt
    /\ IF InRange(attempt + 1, gp_retry_count)
       THEN /\ gp_pc' = "request"
            /\ UNCHANGED <<soup, gp_trace>>
       ELSE /\ gp_pc' = "returned"
            /\ soup' = None
            /\ gp_trace' = Append(gp_trace, "none")
    /\ sleep_time' = 0
    /\ UNCHANGED <<mode, tw_vars, ws_vars, home_vars, gp_retry_count, last_resp>>

(***************************************************************************)
(* scrape_search_results                                                   *)
(***************************************************************************)
\* text.strip()
Strip(text) == text.core

\* the placeholder of a field whose element is missing
NA == <<"N/A">>

\* urljoin(self.base_url, href)
urljoin(base, href) ==
    IF href.absolute THEN <<href.path>> ELSE <<base, href.path>>

RECURSIVE ExtractDetailsFrom(_, _)
\* leakixscraper.py:157-168, the loop over detail_elements
ExtractDetailsFrom(detail_elements, details) ==
    IF detail_elements = <<>> THEN details
    ELSE LET detail == Head(detail_elements)
             found  == detail.key # None /\ detail.value # None
             key    == Strip(detail.key[1])
             value  == Strip(detail.value[1])
         IN ExtractDetailsFrom(Tail(detail_elements),
                IF found THEN (key :> value) @@ details ELSE details)

\* leakixscraper.py:143-170
extract_details(element) == ExtractDetailsFrom(element.details, <<>>)

\* leakixscraper.py:126: item.select_one('a')['href'] raises KeyError when the
\* <a> element has no href attribute
ItemRaises(item) == item.anchor # None /\ item.anchor[1].href = None

\* leakixscraper.py:123-128
ResultData(item) ==
    [ title |-> IF item.title # None THEN Strip(item.title[1]) ELSE NA,
      description |-> IF item.description # None
                      THEN Strip(item.description[1]) ELSE NA,
      url |-> IF item.anchor # None
              THEN Some(urljoin(base_url, item.anchor[1].href[1])) ELSE None,
      details |-> extract_details(item) ]

RECURSIVE ExtractItems_abort(_)
ExtractItems_abort(result_items) ==
    IF result_items = <<>> \/ ItemRaises(Head(result_items)) THEN <<>>
    ELSE <<ResultData(Head(result_items))>> \o ExtractItems_abort(Tail(result_items))

RECURSIVE ExtractItems(_)
\* leakixscraper.py:120-133, the loop over result_items: an element whose
\* extraction raises is passed over
ExtractItems(result_items) ==
    IF result_items = <<>> THEN <<>>
    ELSE (IF ItemRaises(Head(result_items)) THEN <<>>
          ELSE <<ResultData(Head(result_items))>>)
         \o ExtractItems(Tail(result_items))

\* leakixscraper.py:114, soup.select('div.search-result')
Select(s) == s.elements

SoupMissing_falsy(s) == s = None \/ s[1].elements = <<>>
\* leakixscraper.py:110, `if not soup`: a BeautifulSoup object is always true
SoupMissing(s) == s = None

NoResults_never(result_items) == FALSE
\* leakixscraper.py:116, `if not result_items`
NoResults(result_items) == result_items = <<>>

AppendResults_replace(acc, records) == records
\* leakixscraper.py:130, all_results.append, over the elements of one page
AppendResults(acc, records) == acc \o records

PoliteNeeded_early(p, n) == p < n - 1
\* leakixscraper.py:136
PoliteNeeded(p, n) == p < n

\* the samples of random.uniform(2, 5), in ticks
PoliteTimes == (PoliteMin * Ticks) .. (PoliteMax * Ticks)

\* leakixscraper.py:106, range(1, pages + 1): whether page p is run
PageInRange_open(p, n) == 1 <= p /\ p <= n + 1
PageInRange(p, n) == 1 <= p /\ p <= n

\* leakixscraper.py:141, `return all_results`, once the loop has ended
Returned(pc, res) == IF pc = "done" THEN Some(res) ELSE None

\* leakixscraper.py:110-139: get_page has returned; the rest of the loop body
ScrapeProcess ==
    /\ mode = "search" /\ ws_pc = "fetch" /\ gp_pc = "returned"
    /\ ~interrupted
    /\ gp_pc' = "idle"
    /\ IF SoupMissing(soup)
       THEN /\ ws_pc' = "done"
            /\ run_trace' = Append(run_trace, <<"exhausted", page>>)
            /\ UNCHANGED <<all_results, polite_time>>
       ELSE LET result_items == Select(soup[1]) IN
            IF NoResults(result_items)
            THEN /\ ws_pc' = "done"
                 /\ run_trace' = Append(run_trace, <<"empty", page>>)
                 /\ UNCHANGED <<all_results, polite_time>>
            ELSE /\ all_results' = AppendResults(all_results, ExtractItems(result_items))
                 /\ IF PoliteNeeded(page, pages)
                    THEN /\ \E d \in PoliteTimes : polite_time' = d
                         /\ ws_pc' = "polite"
                         /\ run_trace' = run_trace \o <<<<"extract", page>>, <<"polite", page>>>>
                    ELSE /\ polite_time' = polite_time
                         /\ ws_pc' = IF PageInRange(page + 1, pages) THEN "next" ELSE "done"
                         /\ run_trace' = Append(run_trace, <<"extract", page>>)
    /\ delivered' = Returned(ws_pc', all_results')
    \* the frame of get_page is gone
    /\ attempt' = 0
    /\ last_resp' = NoResponse
    /\ UNCHANGED <<mode, tw_vars, pages, page, fetched, responses, interrupted,
                   home_vars, gp_retry_count, soup, sleep_time, gp_trace>>

\* leakixscraper.py:139 and 106-108: time.sleep returns (or no delay was
\* taken), the loop goes on and get_page is called for the next page
ScrapeNextPage ==
    /\ mode = "search" /\ ws_pc \in {"polite", "next"}
    /\ ~interrupted
    /\ page' = IF PageInRange(page + 1, pages) THEN page + 1 ELSE page
    /\ IF PageInRange(page + 1, pages)
       THEN /\ ws_pc' = "fetch"
            /\ gp_pc' = IF InRange(0, gp_retry_count) THEN "request" ELSE "returned"
            /\ attempt' = 0
            /\ soup' = None
            /\ gp_trace' = <<>>
       ELSE /\ ws_pc' = "done"
            /\ UNCHANGED <<gp_pc, attempt, soup, gp_trace>>
    /\ polite_time' = 0
    /\ delivered' = Returned(ws_pc', all_results)
    /\ UNCHANGED <<mode, tw_vars, pages, all_results, run_trace, fetched,
                   responses, interrupted, home_vars, gp_retry_count,
                   sleep_time, last_resp>>

\* KeyboardInterrupt, raised in the main thread while it is inside
\* session.get (leakixscraper.py:44) or time.sleep (58, 139).  No handler of
\* get_page (51: requests.RequestException), of scrape_search_results (132:
\* Exception, around one element) or of main catches it: the run ends where
\* it stands and scrape_search_results returns nothing
Interrupt ==
    /\ mode = "search" /\ ~interrupted
    /\ gp_pc \in {"request", "backoff"} \/ ws_pc = "polite"
    /\ interrupted' = TRUE
    /\ UNCHANGED <<mode, tw_vars, ws_pc, pages, page, all_results, polite_time,
                   run_trace, fetched, responses, delivered, home_vars, gp_vars>>

(***************************************************************************)
(* scrape_leakix_homepage                                                  *)
(***************************************************************************)
\* leakixscraper.py:83: card.select_one('a')['href'] raises KeyError when the
\* <a> element has no href attribute
CardRaises(card) == card.anchor # None /\ card.anchor[1].href = None

\* leakixscraper.py:80-85
ServiceData(card) ==
    [ title |-> IF card.title # None THEN Strip(card.title[1]) ELSE NA,
      description |-> IF card.description # None
                      THEN Strip(card.description[1]) ELSE NA,
      url |-> IF card.anchor # None
              THEN Some(urljoin(base_url, card.anchor[1].href[1])) ELSE None,
      timestamp |-> IF card.date # None THEN Strip(card.date[1]) ELSE NA ]

RECURSIVE ExtractCards(_)
\* leakixscraper.py:77-90, the loop over service_cards: a card whose
\* extraction raises is passed over
ExtractCards(service_cards) ==
    IF service_cards = <<>> THEN <<>>
    ELSE (IF CardRaises(Head(service_cards)) THEN <<>>
          ELSE <<ServiceData(Head(service_cards))>>)
         \o ExtractCards(Tail(service_cards))

\* leakixscraper.py:69-92: get_page("/") has returned; the rest of the function
HomeProcess ==
    /\ mode = "home" /\ home_pc = "fetch" /\ gp_pc = "returned"
    /\ gp_pc' = "idle"
    /\ ~interrupted
    /\ home_pc' = "done"
    /\ results' = IF SoupMissing(soup) THEN <<>>
                  ELSE ExtractCards(Select(soup[1]))
    \* the frame of get_page is gone
    /\ attempt' = 0
    /\ last_resp' = NoResponse
    /\ UNCHANGED <<mode, tw_vars, ws_vars, gp_retry_count, soup, sleep_time,
                   gp_trace>>

HomeInit ==
    /\ home_pc = IF mode = "home" THEN "fetch" ELSE "idle"
    /\ results = <<>>

WsInit ==
    /\ pages \in IF mode = "search" THEN 0 .. MaxPages ELSE {0}
    /\ page = 1
    /\ all_results = <<>>
    /\ polite_time = 0
    /\ run_trace = <<>>
    /\ fetched = <<>>
    /\ responses = <<>>
    /\ interrupted = FALSE
    /\ ws_pc = IF mode # "search" THEN "idle"
               ELSE IF PageInRange(1, pages) THEN "fetch" ELSE "done"
    /\ delivered = Returned(ws_pc, all_results)

GpInit ==
    /\ gp_retry_count \in IF mode = "page" THEN 0 .. MaxRetryCount
                          ELSE {DefaultRetryCount}
    /\ attempt = 0
    /\ soup = None
    /\ sleep_time = 0
    /\ last_resp = NoResponse
    /\ gp_trace = <<>>
    /\ gp_pc = IF mode \in {"page", "home"} \/ (mode = "search" /\ ws_pc = "fetch")
               THEN (IF InRange(0, gp_retry_count) THEN "request" ELSE "returned")
               ELSE "idle"

Init ==
    /\ mode \in {"twitter", "search", "page", "home"}
    /\ tw_pc = IF mode = "twitter" THEN "loop" ELSE "idle"
    /\ TwInit
    /\ WsInit
    /\ HomeInit
    /\ GpInit

Next ==
    \/ TwSuccess
    \/ TwRateLimited
    \/ TwWake
    \/ TwError
    \/ GetPageOk
    \/ GetPageFail
    \/ GetPageWake
    \/ ScrapeProcess
    \/ ScrapeNextPage
    \/ HomeProcess
    \/ Interrupt

Spec == Init /\ [][Next]_vars


(***************************************************************************)
(* Helpers of the properties.                                              *)
(***************************************************************************)
\* how many times x occurs in seq
Count(seq, x) == Cardinality({i \in DOMAIN seq : seq[i] = x})

\* the last element of a sequence that is not empty
Last(seq) == seq[Len(seq)]

\* whether p is a prefix of s
IsPrefix(p, s) == Len(p) <= Len(s) /\ SubSeq(s, 1, Len(p)) = p

\* how many times x occurs in seq up to and including index i
Upto(seq, x, i) == Cardinality({j \in 1..i : seq[j] = x})

(***************************************************************************)
(* C1: in search_tweets (max_retries = 5) each of the first five           *)
(* consecutive rate-limit signals is followed by a wait, and after the     *)
(* wait by a new request; the sixth ends the call (abort) with no further  *)
(* wait and no further request; a call makes at most 6 requests and at     *)
(* most 5 waits.                                                           *)
(***************************************************************************)
C1_RateLimitRetries ==
    /\ Count(tw_trace, "request") <= 6
    /\ Count(tw_trace, "wait") <= 5
    /\ Len(tw_waits) = Count(tw_trace, "wait")
    /\ \A i \in DOMAIN tw_trace :
        tw_trace[i] = "rate_limited" =>
            LET k == Upto(tw_trace, "rate_limited", i) IN
            /\ i < Len(tw_trace)
            /\ k <= 6
            /\ k <= 5 =>
                /\ tw_trace[i + 1] = "wait"
                /\ IF i + 1 = Len(tw_trace)
                   THEN tw_pc \in {"sleeping", "loop"}
                   ELSE tw_trace[i + 2] = "request"
            /\ k = 6 =>
                /\ tw_trace[i + 1] = "abort"
                /\ i + 1 = Len(tw_trace)
                /\ tw_pc = "done"
    \* a wait or an abort only answers a rate-limit signal
    /\ \A i \in DOMAIN tw_trace :
        tw_trace[i] \in {"wait", "abort"} => i > 1 /\ tw_trace[i - 1] = "rate_limited"

\* six rate-limit signals in a row have ended the call
C1_Witness ==
    /\ tw_pc = "done"
    /\ Count(tw_trace, "rate_limited") = 6
    /\ Count(tw_trace, "wait") = 5
    /\ Last(tw_trace) = "abort"

RECURSIVE Rep(_, _)
\* k copies of the sequence s, one after the other
Rep(s, k) == IF k <= 0 THEN <<>> ELSE s \o Rep(s, k - 1)

RECURSIVE RecordsOf(_)
\* the result elements of a payload
ItemsOf(text) == Select(BeautifulSoup(text))

\* the records of a sequence of payloads, in page order
RecordsOf(texts) ==
    IF texts = <<>> THEN <<>>
    ELSE ExtractItems(ItemsOf(Head(texts))) \o RecordsOf(Tail(texts))

\* the payloads that scrape_search_results has been through: every page
\* get_page returned, but the one just returned and not yet looked at
Processed ==
    IF gp_pc = "returned" /\ soup # None
    THEN SubSeq(fetched, 1, Len(fetched) - 1) ELSE fetched

\* one failed attempt of get_page that is retried
FailedRound == <<"request", "fail", "sleep">>

(***************************************************************************)
(* C2: in get_page, if the first k attempts fail and attempt k+1 succeeds  *)
(* (k = 0, 1, 2 when retry_count = 3), exactly k backoff sleeps and k+1    *)
(* requests are made, each sleep lies between a failed attempt and the     *)
(* next request, and the parsed page of the successful attempt is returned.*)
(***************************************************************************)
C2_FailThenSucceed ==
    /\ gp_pc = "request" => gp_trace = Rep(FailedRound, attempt)
    /\ gp_pc = "backoff" => gp_trace = Rep(FailedRound, attempt + 1)
    /\ (gp_pc = "returned" /\ soup # None) =>
        LET k == Count(gp_trace, "fail") IN
        /\ k < gp_retry_count
        /\ gp_retry_count = 3 => k \in {0, 1, 2}
        /\ Count(gp_trace, "sleep") = k
        /\ Count(gp_trace, "request") = k + 1
        /\ gp_trace = Rep(FailedRound, k) \o <<"request", "ok">>
        /\ last_resp.status = 200
        /\ last_resp.text # None
        /\ soup = Some([elements |-> IF last_resp.text[1].markup
                                    THEN last_resp.text[1].elements ELSE <<>>])

\* retry_count = 3: two failures, two sleeps, then a page with results
C2_Witness ==
    /\ gp_pc = "returned"
    /\ gp_retry_count = 3
    /\ soup # None
    /\ soup[1].elements # <<>>
    /\ gp_trace = FailedRound \o FailedRound \o <<"request", "ok">>

(***************************************************************************)
(* C3: in scrape_search_results, if page p is the first page whose result  *)
(* set is empty, the output is the records of pages 1..p-1 in page order,  *)
(* no request for a page after p is made, and the run ends normally.       *)
(***************************************************************************)
C3_StopAtEmptyPage ==
    mode = "search" =>
        \A p \in DOMAIN fetched :
            (/\ ItemsOf(fetched[p]) = <<>>
             /\ \A q \in 1..(p - 1) : ItemsOf(fetched[q]) # <<>>) =>
                /\ Len(fetched) = p
                /\ page = p
                /\ \A i \in DOMAIN run_trace : run_trace[i][2] <= p
                /\ all_results = RecordsOf(SubSeq(fetched, 1, p - 1))
                /\ gp_pc # "returned" =>
                    /\ ws_pc = "done"
                    /\ Last(run_trace) = <<"empty", p>>

\* three pages asked for, the second one is empty: the run has ended with
\* the records of page 1
C3_Witness ==
    /\ mode = "search" /\ pages = 3
    /\ ws_pc = "done"
    /\ Len(fetched) = 2
    /\ fetched[2].markup /\ ItemsOf(fetched[2]) = <<>>
    /\ Len(all_results) = 2
    /\ Last(run_trace) = <<"empty", 2>>

(***************************************************************************)
(* C4: a later failure never discards records: the accumulated records     *)
(* only grow (all_results and tweets are append-only), and at every point  *)
(* of a run of scrape_search_results, its end included (page target, empty *)
(* page, exhausted page), all_results is the records of the pages fetched  *)
(* before that point.                                                      *)
(***************************************************************************)
C4_Kept ==
    /\ mode = "search" => all_results = RecordsOf(Processed)
    /\ mode # "search" => all_results = <<>>
    /\ tw_pc \in {"loop", "sleeping"} => tweets = <<>>

C4_Grows == IsPrefix(all_results, all_results') /\ IsPrefix(tweets, tweets')

\* C4: the records kept are those of the pages fetched so far, at every
\* point of every run, and no step takes a record away
C4_NeverDiscards == [](C4_Kept) /\ [][C4_Grows]_vars

\* the third page is exhausted after two pages of records
C4_Witness ==
    /\ mode = "search" /\ ws_pc = "done"
    /\ run_trace # <<>>
    /\ Last(run_trace) = <<"exhausted", 3>>
    /\ Len(fetched) = 2
    /\ Len(all_results) >= 3

(***************************************************************************)
(* C5: a failed attempt of get_page (transport error or status other than  *)
(* 200) is retried until retry_count attempts are made; when all of them   *)
(* fail get_page returns None and scrape_search_results stops at that      *)
(* page: no later page is requested, the earlier records are returned.     *)
(***************************************************************************)
C5_Exhausted ==
    /\ Count(gp_trace, "request") <= gp_retry_count
    /\ (gp_pc = "returned" /\ soup = None) =>
        /\ Count(gp_trace, "request") = gp_retry_count
        /\ Count(gp_trace, "fail") = gp_retry_count
        /\ Count(gp_trace, "ok") = 0
    /\ (gp_pc \in {"request", "backoff"}) =>
        Count(gp_trace, "fail") < gp_retry_count
    /\ (mode = "search" /\ gp_pc = "idle"
            /\ Count(gp_trace, "fail") = gp_retry_count) =>
        /\ ws_pc = "done"
        /\ Last(run_trace) = <<"exhausted", page>>
        /\ \A i \in DOMAIN run_trace : run_trace[i][2] <= page
        /\ Len(fetched) = page - 1
        /\ all_results = RecordsOf(fetched)

\* page 2 of 3 failed three times: the run has ended with page 1's records
C5_Witness ==
    /\ mode = "search" /\ pages = 3 /\ page = 2
    /\ ws_pc = "done"
    /\ Count(gp_trace, "fail") = 3
    /\ all_results # <<>>

(***************************************************************************)
(* C6: between two pages requested one after the other, exactly one        *)
(* politeness delay of 2 to 5 seconds is taken, after the first page is    *)
(* extracted and before the first request of the next one, also when the   *)
(* first page succeeded at once.                                           *)
(***************************************************************************)
C6_PolitenessDelay ==
    /\ ws_pc = "polite" =>
        /\ 2 * Ticks <= polite_time /\ polite_time <= 5 * Ticks
        /\ Last(run_trace) = <<"polite", page>>
    /\ \A i \in DOMAIN run_trace :
        LET p == run_trace[i][2] IN
        /\ (/\ run_trace[i][1] = "request"
            /\ p > 1
            /\ (i = 1 \/ run_trace[i - 1] # <<"request", p>>)) =>
                /\ i > 2
                /\ run_trace[i - 1] = <<"polite", p - 1>>
                /\ run_trace[i - 2] = <<"extract", p - 1>>
        /\ run_trace[i][1] = "polite" =>
                /\ i > 1
                /\ run_trace[i - 1] = <<"extract", p>>
    /\ Cardinality({i \in DOMAIN run_trace : run_trace[i][1] = "polite"})
         = (IF ws_pc = "polite" THEN page ELSE page - 1)

\* page 1 succeeded on its first attempt and page 2 has been requested
C6_Witness ==
    /\ Len(run_trace) >= 4
    /\ SubSeq(run_trace, 1, 4) =
         << <<"request", 1>>, <<"extract", 1>>, <<"polite", 1>>, <<"request", 2>> >>

(***************************************************************************)
(* C7 (as amended): for every attempt a >= 0 that is followed by a sleep,  *)
(* the backoff delay of get_page satisfies 2^a <= delay(a) < 2^a + 1       *)
(* seconds; no cap is applied to it.                                       *)
(***************************************************************************)
C7_BackoffBracket ==
    gp_pc = "backoff" =>
        /\ Ticks * Pow2(attempt) <= sleep_time
        /\ sleep_time < Ticks * Pow2(attempt) + Ticks

\* the sleep after the third failed attempt, with a jitter above 0
C7_Witness ==
    /\ gp_pc = "backoff"
    /\ attempt = 2
    /\ sleep_time > Ticks * 4

\* C7 as stated: the bracket, and a cap max_delay on the delay of large
\* attempts.  A cap that acts on one of the attempts 0..MaxRetryCount-2 is at
\* most the largest value 2^a of these attempts.
C7_Original ==
    gp_pc = "backoff" =>
        /\ Ticks * Pow2(attempt) <= sleep_time
        /\ sleep_time < Ticks * Pow2(attempt) + Ticks
        /\ sleep_time <= Ticks * Pow2(MaxRetryCount - 2)


(***************************************************************************)
(* C8 (as amended): on a rate-limit signal the wait is the doubling delay, *)
(* whether or not the response carries a reset hint: the k-th consecutive  *)
(* wait of a call (k = 1..5) lasts 60 * 2^(k-1) seconds.                   *)
(***************************************************************************)
C8_DoublingDelay ==
    /\ \A k \in DOMAIN tw_waits : tw_waits[k] = 60 * Pow2(k - 1)
    /\ Len(tw_waits) <= 5
    /\ tw_pc = "sleeping" =>
        /\ tw_wait = Last(tw_waits)
        /\ Len(tw_waits) = retry_count + 1

\* the fifth wait, of 960 seconds, after a response that carried a hint
C8_Witness ==
    /\ tw_pc = "sleeping"
    /\ tw_hint # None
    /\ tw_waits = <<60, 120, 240, 480, 960>>

\* C8 as stated: the wait is the reset hint when the response carries one,
\* and the doubling delay otherwise
C8_Original ==
    tw_pc = "sleeping" =>
        tw_wait = IF tw_hint # None THEN tw_hint[1]
                  ELSE 60 * Pow2(Len(tw_waits) - 1)


(***************************************************************************)
(* C9 (as amended): each fetch cycle has one counter.  In get_page every   *)
(* failed attempt, a rate-limit status (429) like any other status or a    *)
(* transport error, consumes one of the retry_count attempts and is        *)
(* retried after a backoff sleep while attempts remain.  In search_tweets  *)
(* only rate-limit signals are counted (retry_count) and retried; any      *)
(* other failure changes no counter and ends the call at once.             *)
(***************************************************************************)
C9_Counters ==
    /\ gp_pc = "request" => attempt = Count(gp_trace, "fail")
    /\ gp_pc = "backoff" => attempt + 1 = Count(gp_trace, "fail")
    /\ retry_count = Count(tw_trace, "wait") - (IF tw_pc = "sleeping" THEN 1 ELSE 0)
    /\ Count(tw_trace, "error") > 0 =>
        /\ tw_pc = "done"
        /\ Last(tw_trace) = "error"
        /\ Count(tw_trace, "error") = 1

C9_Step ==
    \* get_page: a failure of any kind
    /\ (gp_pc = "request" /\ gp_trace' # gp_trace /\ last_resp'.status # 200) =>
        /\ Count(gp_trace', "fail") = Count(gp_trace, "fail") + 1
        /\ Count(gp_trace', "request") = Count(gp_trace, "request") + 1
        /\ IF Count(gp_trace', "request") < gp_retry_count
           THEN gp_pc' = "backoff" /\ sleep_time' >= Ticks
           ELSE gp_pc' = "returned" /\ soup' = None
    /\ (gp_pc = "backoff" /\ gp_pc' # "backoff") =>
        gp_pc' = "request" /\ attempt' = attempt + 1
    \* search_tweets: a failure that is no rate-limit signal
    /\ (tw_pc = "loop" /\ tw_pc' # "loop" /\ Last(tw_trace') = "error") =>
        /\ tw_pc' = "done"
        /\ retry_count' = retry_count
        /\ tw_waits' = tw_waits
    \* search_tweets: a rate-limit signal
    /\ (tw_pc = "loop" /\ tw_pc' = "sleeping") =>
        /\ retry_count < 5
        /\ retry_count' = retry_count
    /\ (tw_pc = "sleeping" /\ tw_pc' # "sleeping") =>
        /\ retry_count' = retry_count + 1
        /\ tw_pc' = "loop"

\* C9 (as amended): one counter per cycle, used up by every failure that
\* is retried
C9_SingleCounter == [](C9_Counters) /\ [][C9_Step]_vars

\* get_page sleeps after a 429 that used up its second attempt
C9_Witness ==
    /\ gp_pc = "backoff"
    /\ last_resp.status = 429
    /\ attempt = 1
    /\ gp_retry_count = 3

\* C9 as stated: a rate-limit signal never uses up a generic attempt (one of
\* the retry_count attempts of get_page), and a generic failure is retried
\* after a backoff delay while attempts remain
C9_OriginalStep ==
    /\ (gp_pc = "request" /\ last_resp'.status = 429) =>
        gp_retry_count - Count(gp_trace', "request")
            = gp_retry_count - Count(gp_trace, "request")
    /\ (gp_pc = "request" /\ last_resp'.status \notin {200, 429}
            /\ Count(gp_trace', "request") < gp_retry_count) =>
        gp_pc' = "backoff"

C9_Original == [][C9_OriginalStep]_vars

(***************************************************************************)
(* C10 (as amended): a page whose payload gives no result element, a       *)
(* payload that cannot be parsed included, yields zero records and ends    *)
(* the run like an empty result set: no later page is requested and the    *)
(* records of the earlier pages are returned.  A page whose elements all   *)
(* fail to give a record yields zero records and does not end the run.     *)
(***************************************************************************)
C10_NoElementEndsRun ==
    (mode = "search" /\ gp_pc = "idle" /\ Len(fetched) = page) =>
        LET result_items == ItemsOf(fetched[page])
            earlier == RecordsOf(SubSeq(fetched, 1, page - 1))
        IN
        /\ result_items = <<>> =>
            /\ ws_pc = "done"
            /\ Last(run_trace) = <<"empty", page>>
            /\ all_results = earlier
        /\ (result_items # <<>> /\ ExtractItems(result_items) = <<>>) =>
            /\ all_results = earlier
            /\ ws_pc = IF page < pages THEN "polite" ELSE "done"
            /\ \E i \in DOMAIN run_trace : run_trace[i] = <<"extract", page>>

\* page 2 of 3 is a payload that is no markup: the run has ended with the
\* records of page 1
C10_Witness ==
    /\ mode = "search" /\ pages = 3 /\ page = 2
    /\ gp_pc = "idle"
    /\ Len(fetched) = 2
    /\ ~fetched[2].markup
    /\ ws_pc = "done"
    /\ all_results # <<>>

\* C10 as stated: a payload that cannot be parsed into any element yields
\* zero records and the run goes on to the next page
C10_Original ==
    (/\ mode = "search" /\ gp_pc = "idle" /\ Len(fetched) = page
     /\ ~fetched[page].markup
     /\ page < pages) =>
        /\ all_results = RecordsOf(SubSeq(fetched, 1, page - 1))
        /\ ws_pc = "polite"

(***************************************************************************)
(* C11 (amended): an element is skipped exactly when its extraction        *)
(* raises, which is when its <a> has no href attribute; the skip raises no *)
(* error and leaves the other elements alone, so a page of n elements of   *)
(* which exactly one has such a link yields n-1 records, in the order of   *)
(* the remaining elements.  An element without title, description and link *)
(* is not skipped: it is emitted with placeholders.  The same holds for    *)
(* the cards of the homepage.                                              *)
(***************************************************************************)
\* the element has no link, or a link with a target
C11_Emitted(e) == e.anchor = None \/ e.anchor[1].href # None

C11_Skips(items) == Cardinality({i \in DOMAIN items : ~C11_Emitted(items[i])})

\* one record per emitted element, in the order of the elements
C11_PageRecords(items) ==
    LET kept == SelectSeq(items, C11_Emitted)
    IN  [i \in 1 .. Len(kept) |-> ResultData(kept[i])]

RECURSIVE C11_Expected(_)
C11_Expected(texts) ==
    IF texts = <<>> THEN <<>>
    ELSE C11_PageRecords(ItemsOf(Head(texts))) \o C11_Expected(Tail(texts))

RECURSIVE C11_ExpectedLen(_)
C11_ExpectedLen(texts) ==
    IF texts = <<>> THEN 0
    ELSE Len(ItemsOf(Head(texts))) - C11_Skips(ItemsOf(Head(texts)))
         + C11_ExpectedLen(Tail(texts))

C11_SkipOnRaise ==
    /\ mode = "search" =>
        /\ all_results = C11_Expected(Processed)
        /\ Len(all_results) = C11_ExpectedLen(Processed)
    /\ (mode = "home" /\ home_pc = "done" /\ soup # None) =>
        LET cards == ItemsOf(Last(fetched))
            kept == SelectSeq(cards, C11_Emitted)
        IN  /\ results = [i \in 1 .. Len(kept) |-> ServiceData(kept[i])]
            /\ Len(results) = Len(cards) - C11_Skips(cards)

\* a page of three elements, the second with a link that has no target, has
\* given two records, the second of them from the element with no fields
C11_Witness ==
    /\ mode = "search" /\ gp_pc = "idle" /\ Len(fetched) = 1
    /\ Len(ItemsOf(fetched[1])) = 3
    /\ ~C11_Emitted(ItemsOf(fetched[1])[2])
    /\ Len(all_results) = 2
    /\ all_results[1] = ResultData(ItemsOf(fetched[1])[1])
    /\ all_results[2] = ResultData(ItemsOf(fetched[1])[3])
    /\ all_results[2].title = NA

\* C11 as stated: whichever field identifies an element, no record is emitted
\* for an element that has neither title nor description nor link
C11_Original ==
    \A i \in DOMAIN all_results :
        ~(/\ all_results[i].title = NA
          /\ all_results[i].description = NA
          /\ all_results[i].url = None)

(***************************************************************************)
(* C12: an element that misses a field other than the identifying one is   *)
(* still emitted, with a placeholder ("N/A" or null) for that field only   *)
(* and the extracted values of the fields it has; its extraction does not  *)
(* fail.  Stated for the link target: an element whose <a> carries no href *)
(* is emitted with a null url and its own title.                           *)
(***************************************************************************)
\* the record the claim gives an element: a placeholder for whatever misses
C12_Record(item) ==
    [ title |-> IF item.title # None THEN Strip(item.title[1]) ELSE NA,
      description |-> IF item.description # None
                      THEN Strip(item.description[1]) ELSE NA,
      url |-> IF item.anchor # None /\ item.anchor[1].href # None
              THEN Some(urljoin(base_url, item.anchor[1].href[1])) ELSE None,
      details |-> extract_details(item) ]

RECURSIVE C12_Expected(_)
C12_Expected(texts) ==
    IF texts = <<>> THEN <<>>
    ELSE LET items == ItemsOf(Head(texts))
         IN  [i \in 1 .. Len(items) |-> C12_Record(items[i])]
             \o C12_Expected(Tail(texts))

C12_Original ==
    mode = "search" => all_results = C12_Expected(Processed)

(***************************************************************************)
(* C13: in every reachable state the attempt counter of get_page is below  *)
(* the maximum while a cycle runs (attempt < retry_count) and the counter  *)
(* of search_tweets satisfies 0 <= retry_count <= 5; each counter equals   *)
(* the number of retried failures of its own cycle, so that every new      *)
(* cycle starts with its counter at zero.                                  *)
(***************************************************************************)
C13_CountersBounded ==
    /\ gp_pc \in {"request", "backoff"} =>
        /\ 0 <= attempt /\ attempt < gp_retry_count
        /\ attempt = Count(gp_trace, "sleep") - (IF gp_pc = "backoff" THEN 1 ELSE 0)
    /\ (gp_pc = "request" /\ gp_trace = <<>>) => attempt = 0
    /\ attempt >= 0
    /\ 0 <= retry_count /\ retry_count <= max_retries
    /\ retry_count = Count(tw_trace, "wait") - (IF tw_pc = "sleeping" THEN 1 ELSE 0)
    /\ tw_trace = <<>> => retry_count = 0

\* the cycle of page 2 starts at zero after the cycle of page 1 took three
\* requests
C13_Witness ==
    /\ mode = "search" /\ page = 2
    /\ gp_pc = "request" /\ gp_trace = <<>> /\ attempt = 0
    /\ Count(run_trace, <<"request", 1>>) = DefaultRetryCount

(***************************************************************************)
(* C14: cancellation from outside is checked at every suspension point     *)
(* (before each sleep and before each request), and a multi-page run that  *)
(* is interrupted still delivers every record extracted before the         *)
(* interruption.                                                           *)
(***************************************************************************)
C14_Original ==
    (mode = "search" /\ interrupted /\ all_results # <<>>) =>
        delivered = Some(all_results)

(***************************************************************************)
(* C15: the records a run delivers are a function of the sequence of       *)
(* responses it received (and of the number of pages asked for), whatever  *)
(* backoff jitter and politeness delay were drawn: C15_Run computes them   *)
(* from the responses alone.                                               *)
(***************************************************************************)
RECURSIVE C15_Run(_, _, _, _, _, _)
\* the records of a run of n pages from the responses resps, standing at page
\* p after `fails` failed requests for it, with acc collected and `used`
\* responses read; used is -1 when the responses end before the run does
C15_Run(resps, p, n, fails, acc, used) ==
    IF p > n THEN [records |-> acc, used |-> used]
    ELSE IF resps = <<>> THEN [records |-> acc, used |-> -1]
    ELSE IF Head(resps) = None
         THEN IF fails + 1 >= DefaultRetryCount
              THEN [records |-> acc, used |-> used + 1]
              ELSE C15_Run(Tail(resps), p, n, fails + 1, acc, used + 1)
    ELSE LET items == ItemsOf(Head(resps)[1]) IN
         IF items = <<>> THEN [records |-> acc, used |-> used + 1]
         ELSE C15_Run(Tail(resps), p + 1, n, 0,
                      acc \o C11_PageRecords(items), used + 1)

\* the cards of the homepage from the responses of its one get_page call
C15_Home(resps) ==
    IF resps = <<>> \/ Last(resps) = None THEN <<>>
    ELSE LET kept == SelectSeq(ItemsOf(Last(resps)[1]), C11_Emitted)
         IN  [i \in 1 .. Len(kept) |-> ServiceData(kept[i])]

C15_Deterministic ==
    /\ (mode = "search" /\ ws_pc = "done" /\ ~interrupted) =>
        LET run == C15_Run(responses, 1, pages, 0, <<>>, 0)
        IN  /\ delivered = Some(run.records)
            /\ run.used = Len(responses)
    /\ (mode = "home" /\ home_pc = "done") => results = C15_Home(responses)

\* a run of three pages that had a failed request, a backoff sleep and a
\* politeness delay on its way has delivered records
C15_Witness ==
    /\ mode = "search" /\ pages = 3 /\ ws_pc = "done" /\ ~interrupted
    /\ \E i \in DOMAIN responses : responses[i] = None
    /\ \E i \in DOMAIN run_trace : run_trace[i] = <<"polite", 1>>
    /\ delivered # None /\ Len(delivered[1]) >= 2

C17_ErrorEndsCycle ==
    \A i \in DOMAIN tw_trace :
        tw_trace[i] = "error" =>
            /\ i = Len(tw_trace)
            /\ i >= 2 /\ tw_trace[i - 1] = "request"
            /\ tw_pc = "done"
            /\ tw_wait = 0
            /\ Len(tw_waits) = Count(tw_trace, "rate_limited")
            /\ Count(tw_trace, "request") = Count(tw_trace, "rate_limited") + 1
            /\ tweets = <<>>

\* the error came after two rate-limit signals: the counter stands at 2 and
\* the call has ended
C17_Witness ==
    /\ mode = "twitter" /\ tw_pc = "done"
    /\ retry_count = 2
    /\ Last(tw_trace) = "error"
    /\ tweets = <<>>

(***************************************************************************)
(* C19: within one cycle no request follows a success, in search_tweets    *)
(* and in get_page alike; the tweets returned come from at most one        *)
(* response and none is there twice; a success that carries no data ends   *)
(* the call with an empty list and is not retried.                         *)
(***************************************************************************)
C19_StopAfterSuccess ==
    /\ \A i \in DOMAIN tw_trace :
        tw_trace[i] \in {"success", "empty"} =>
            /\ i = Len(tw_trace)
            /\ tw_pc = "done"
            /\ tw_trace[i] = "empty" => tweets = <<>>
            /\ tw_trace[i] = "success" =>
                \E resp \in TwResponses :
                    /\ resp.data # <<>>
                    /\ tweets = ProcessTweets(resp.data, resp.users)
    /\ Count(tw_trace, "success") + Count(tw_trace, "empty") <= 1
    /\ tweets # <<>> => Count(tw_trace, "success") = 1
    /\ \A i, j \in DOMAIN tweets : i # j => tweets[i].id # tweets[j].id
    /\ \A i \in DOMAIN gp_trace :
        gp_trace[i] = "ok" =>
            /\ i = Len(gp_trace)
            /\ gp_pc \in {"returned", "idle"}
            /\ soup # None
    /\ Count(gp_trace, "ok") <= 1

\* a success after one rate-limit signal has ended the call with the tweets
\* of that one response
C19_Witness ==
    /\ mode = "twitter" /\ tw_pc = "done"
    /\ retry_count = 1
    /\ Last(tw_trace) = "success"
    /\ Len(tweets) >= 2

(***************************************************************************)
(* C18: every run terminates.  search_tweets makes at most 6 requests,     *)
(* get_page at most retry_count requests, scrape_search_results with N     *)
(* pages at most N * retry_count requests and at most N - 1 politeness     *)
(* delays; and every step of a run lowers C18_Rank, a natural number, so   *)
(* that no run goes on for ever.                                           *)
(***************************************************************************)
\* how many steps get_page may still take
C18_GpRank ==
    CASE gp_pc = "request" -> 2 * (gp_retry_count - attempt)
      [] gp_pc = "backoff" -> 2 * (gp_retry_count - attempt) - 1
      [] OTHER -> 0

\* how many steps the run may still take
C18_Rank ==
    CASE mode = "twitter" ->
            (CASE tw_pc = "loop" -> 2 * (max_retries - retry_count) + 2
               [] tw_pc = "sleeping" -> 2 * (max_retries - retry_count) + 1
               [] OTHER -> 0)
      [] mode = "page" -> C18_GpRank
      [] mode = "home" -> IF home_pc = "fetch" THEN C18_GpRank + 1 ELSE 0
      [] OTHER ->
            IF interrupted \/ ws_pc = "done" THEN 0
            ELSE (pages - page) * (2 * gp_retry_count + 3)
                 + (IF ws_pc = "fetch" THEN C18_GpRank + 3 ELSE 1)

\* the requests and the politeness delays a run has made
C18_Requests == Cardinality({i \in DOMAIN run_trace : run_trace[i][1] = "request"})
C18_Delays == Cardinality({i \in DOMAIN run_trace : run_trace[i][1] = "polite"})

C18_Bounds ==
    /\ Count(tw_trace, "request") <= max_retries + 1
    /\ Count(gp_trace, "request") <= gp_retry_count
    /\ mode = "search" =>
        /\ C18_Requests <= pages * gp_retry_count
        /\ C18_Delays <= IF pages = 0 THEN 0 ELSE pages - 1
    /\ C18_Rank >= 0

C18_Decreases == C18_Rank' < C18_Rank

=============================================================================
